---- MODULE Spec2Model ----
(***************************************************************************)
(* Checkpointed alert search of the incydr CLI (src/incydr/cli/cmds/       *)
(* alerts.py): the `search` command, the `_update_checkpoint` generator    *)
(* that de-duplicates alerts across checkpointed runs, and the cursor      *)
(* store it reads and writes.                                              *)
(*                                                                         *)
(* One process, as in the code: a command runs from its start to one of    *)
(* its ends (done, usage_error, failed, interrupted, killed) before the    *)
(* next command starts.  The generator is cut at the points where control  *)
(* leaves it: at the request for the next alert, at the `yield`, and       *)
(* between its two writes to the cursor store.                             *)
(*                                                                         *)
(* The query model (AlertQuery), _create_query, the bulk_update_state      *)
(* command and the log settings (src/incydr/_core/settings.py) have their  *)
(* own variables and their own specifications: SpecQuery, SpecCreateQuery, *)
(* SpecBulk and SpecSettings.  The specifications of the search commands   *)
(* differ in the history they keep and in what they draw (variable kept).  *)
(***************************************************************************)
EXTENDS Integers, Sequences, FiniteSets

(***************************************************************************)
(* Bounds of the model.                                                    *)
(***************************************************************************)
\* how many alerts the upstream service ever holds
NumAlerts == 4
\* how many distinct creation times exist (100, 150, ...)
MaxTick == 2
\* how many alerts share one creation time
MaxTied == 2

\* `new_timestamp = None`, a checkpoint that was never written, an option
\* that was not given
None == 0

\* `checkpoint_name` of a search run without --checkpoint
NoName == ""

AlertIds == <<"a", "b", "c", "d", "e", "f">>
Times == {50 * (k + 1) : k \in 1..MaxTick}

SeqToSet(s) == {s[i] : i \in 1..Len(s)}

VARIABLES
    kept,               \* which history a behaviour keeps: "runs" (regular, delivered,
                        \* prevBoundary, runNo), "gap" (cut, unhanded; every search of these
                        \* behaviours fetches, with no upper bound, every alert from the
                        \* stored timestamp on), "delete" (deleted), "usage" (none of
                        \* these; these behaviours draw every option of search()),
                        \* "none", "anyorder" (none; the fetch keeps no order) or
                        \* "names" (none; two checkpoint names)
    upstream,           \* alerts the service holds, in order of creation
    store,              \* cursor store: name -> [ts, items]
    pc,                 \* where the running command is
    checkpoint_name,    \* search(): --checkpoint of the current run
    query,              \* search(): the query handed to iter_all
    rangeGiven,         \* history: the invocation gave --start, --end, --on or --advanced-query
    remaining,          \* iter_all(query): alerts still to be returned
    checkpoint_alerts,  \* _update_checkpoint local: the ids of cursor.get_items
    new_timestamp,      \* _update_checkpoint local
    new_alerts,         \* _update_checkpoint local: the ids of the list (the code
                        \* only tests membership in the stored list, line 357)
    fetched,            \* history: ids the fetcher returned in this run, in order
    yielded,            \* history: ids handed to the consumer in this run, in order
    store0,             \* history: the checkpoint when this run started
    lastAdv,            \* history: the checkpoint after the last complete advance
    writes,             \* history: writes to the cursor store in this run
    regular,            \* history: every ended checkpointed run had an exact fetch and was
                        \* iterated to its end; the rest of the history is kept while this holds
    delivered,          \* history: ids yielded by the ended runs of the checkpoint
    prevBoundary,       \* history: ids the last ended run yielded at its final last_timestamp
    runNo,              \* history: checkpointed runs since the checkpoint was absent (3 = more)
    fetchKind,          \* history: this run's fetch against the alerts from the stored timestamp on
    cut,                \* history: the last ended run of the checkpoint stopped before the
                        \* end of its fetch
    unhanded,           \* history: ids of the alerts from the start of the run that found no
                        \* timestamp on which no ended run has handed to the consumer
    deleted,            \* history, kept by "delete": the checkpoint the last clear_checkpoint
                        \* removed, until a run of the checkpoint ends
    qpc,                \* query model: where the construction of a query is
    built,              \* query model: the AlertQuery under construction
    text,               \* query model: its serialization
    parsed,             \* query model: the AlertQuery parsed from text
    kwargs,             \* _create_query: the keyword arguments it was called with
    kpos,               \* _create_query: the place of its loop in kwargs.items()
    bulk_pc,            \* bulk_update_state(): where the command is
    state,              \* bulk_update_state(): --state
    note,               \* bulk_update_state(): --note
    alerts_,            \* bulk_update_state(): the rows of the input
    chunks,             \* bulk_update_state(): the chunks of the buckets still to be sent
    retry,              \* bulk_update_state(): ids of the chunk still to be tried one by one
    calls,              \* history: the calls of client.alerts.v1.change_state, in order
    spc,                \* settings: how the last construction or assignment ended
    settings,           \* settings: the log fields of the IncydrSettings object
    loggers,            \* the loggers of the process: name -> [incydr, handlers, level]
    lpc,                \* _validate_log_level: where it is
    given,              \* _validate_log_level: the value it is given
    level               \* _validate_log_level: what it returns

\* the checkpoint names the operator passes with --checkpoint
CheckpointNames == IF kept = "names" THEN {"cp", "cp2"} ELSE {"cp"}

\* how many alerts the service holds at most: with two checkpoint names
\* two fewer, with a fetch that keeps no order one fewer
AlertsHeld ==
    IF kept = "names" THEN NumAlerts - 2
    ELSE IF kept = "anyorder" THEN NumAlerts - 1
    ELSE NumAlerts

\* the behaviours that draw fewer options of search()
FewOptions == kept \in {"anyorder", "names"}

\* the variables no step of search() or clear_checkpoint() changes
queryVars == <<qpc, built, text, parsed, kwargs, kpos>>
bulkVars == <<bulk_pc, state, note, alerts_, chunks, retry, calls>>
settingsVars == <<spc, settings, loggers, lpc, given, level>>
otherVars == <<kept, queryVars, bulkVars, settingsVars>>

vars == <<otherVars, upstream, store, pc, checkpoint_name, query, rangeGiven, remaining,
          checkpoint_alerts, new_timestamp, new_alerts, fetched, yielded,
          store0, lastAdv, writes, delivered, prevBoundary, runNo, regular,
          fetchKind, cut, unhanded, deleted>>

runVars == <<checkpoint_name, query, rangeGiven, remaining, checkpoint_alerts,
             new_timestamp, new_alerts, fetched, yielded, store0, lastAdv,
             writes, fetchKind>>
histVars == <<delivered, prevBoundary, runNo, regular, cut, unhanded, deleted>>
searchVars == <<upstream, store, pc, runVars, histVars>>

\* no command is running
Idle == pc = "idle"
\* a search is iterating over its fetch
Running == pc \in {"fetch", "yielded", "replaced"}
\* the command has ended and its process is about to exit
Ended == pc \in {"done", "usage_error", "invalid_query", "failed", "interrupted",
                 "killed", "cleared"}

(***************************************************************************)
(* Cursor store (incydr.cli.cursor.CursorStore, used through get,          *)
(* get_items, replace, replace_items and delete).                          *)
(***************************************************************************)
Absent == [ts |-> None, items |-> {}]

\* `query` while no search runs
NoQuery == [start |-> None, end |-> None, on |-> None, predicates |-> <<>>]

cursor_get(st, name) == st[name].ts
cursor_get_items(st, name) == st[name].items
cursor_replace(st, name, ts) == [st EXCEPT ![name].ts = ts]
cursor_replace_items(st, name, items) == [st EXCEPT ![name].items = items]
cursor_delete(st, name) == [st EXCEPT ![name] = Absent]

(***************************************************************************)
(* The fetcher (client.alerts.v1.iter_all): the alerts that match the      *)
(* query's time range, returned in ascending order of created_at; the      *)
(* order of alerts with equal created_at is not fixed.                     *)
(***************************************************************************)
Matches(q) ==
    {r \in SeqToSet(upstream) :
        /\ (q.start = None \/ r.created_at >= q.start)
        /\ (q.end = None \/ r.created_at <= q.end)
        /\ (q.on = None \/ r.created_at = q.on)}

NextAlerts(S) ==
    IF kept = "anyorder"
    THEN \* a fetch that keeps no order: the oldest or the newest comes next
         {r \in S : \/ \A o \in S : r.created_at <= o.created_at
                    \/ \A o \in S : r.created_at >= o.created_at}
    ELSE {r \in S : \A o \in S : r.created_at <= o.created_at}

IdsOf(S) == {r.id : r \in S}

TsOf(id) == (CHOOSE r \in SeqToSet(upstream) : r.id = id).created_at

InitSearch(k) ==
    /\ kept = k
    /\ upstream = <<>>
    /\ store = [n \in CheckpointNames |-> Absent]
    /\ pc = "idle"
    /\ checkpoint_name = NoName
    /\ query = NoQuery
    /\ rangeGiven = FALSE
    /\ remaining = {}
    /\ checkpoint_alerts = {}
    /\ new_timestamp = None
    /\ new_alerts = {}
    /\ fetched = <<>>
    /\ yielded = <<>>
    /\ store0 = Absent
    /\ lastAdv = Absent
    /\ writes = 0
    /\ delivered = {}
    /\ prevBoundary = {}
    /\ runNo = IF k = "runs" THEN 0 ELSE 3
    /\ regular = (k = "runs")
    /\ fetchKind = "exact"
    /\ cut = FALSE
    /\ unhanded = {}
    /\ deleted = Absent

(***************************************************************************)
(* The service creates an alert.  created_at is the service's clock, so it *)
(* is not less than that of the alerts created before.                     *)
(***************************************************************************)
NewAlert(t) ==
    /\ Idle
    /\ Len(upstream) < AlertsHeld
    /\ Cardinality({i \in 1..Len(upstream) : upstream[i].created_at = t}) < MaxTied
    /\ Len(upstream) > 0 => t >= upstream[Len(upstream)].created_at
    /\ upstream' = Append(upstream,
                     [id |-> AlertIds[Len(upstream) + 1], created_at |-> t])
    /\ unhanded' = IF kept = "gap" /\ \E n \in CheckpointNames : cursor_get(store, n) # None
                    THEN unhanded \cup {AlertIds[Len(upstream) + 1]}
                    ELSE unhanded
    /\ UNCHANGED <<otherVars, store, pc, runVars, delivered, prevBoundary, runNo,
                   regular, cut, deleted>>


(***************************************************************************)
(* search(), lines 91-129.                                                 *)
(***************************************************************************)
\* the text of a query: the values of its fields start_date, end_date, on
\* and predicates, in this order
serialize(q) == <<q.start, q.end, q.on, q.predicates>>

\* mutant: the day of `on` is not read back
parse_raw_DropsOn(raw) ==
    [start |-> raw[1], end |-> raw[2], on |-> None, predicates |-> raw[4]]

\* AlertQuery.parse_raw(advanced_query)
parse_raw(raw) ==
    [start |-> raw[1], end |-> raw[2], on |-> raw[3], predicates |-> raw[4]]

\* field_option_map, lines 303-313
field_option_map ==
    [alert_id |-> "AlertId", type_ |-> "Type", name |-> "Name",
     actor |-> "Actor", actor_id |-> "ActorId",
     risk_severity |-> "RiskSeverity", state |-> "State",
     rule_id |-> "RuleId", alert_severity |-> "AlertSeverity"]

\* the fields a predicate of an alert query may name
AllowedFields == {field_option_map[k] : k \in DOMAIN field_option_map}

\* a query can be constructed: every predicate names an allowed field
ValidQuery(q) ==
    \A i \in 1..Len(q.predicates) : q.predicates[i].field \in AllowedFields

\* the --advanced-query strings of the model: a start_date or none, no
\* end_date and no on (the options draw those) and no predicate; and one
\* with a predicate on a field that does not exist
AdvancedQueries ==
    {serialize([start |-> s, end |-> None, on |-> None, predicates |-> <<>>]) :
        s \in IF FewOptions THEN {None} ELSE Times \cup {None}}
    \cup {serialize([start |-> None, end |-> None, on |-> None,
                     predicates |-> <<[field |-> "not_a_real_field",
                                      operator |-> "IS", value |-> "x"]>>])}
\* search() without --advanced-query
NoAdvancedQuery == <<>>

\* the days --on draws: none or the earliest
OnOptions ==
    IF kept = "usage"
    THEN {None} \cup {t \in Times : \A o \in Times : t <= o}
    ELSE {None}

\* the ends --end draws
EndOptions == IF FewOptions THEN {None} ELSE Times \cup {None}

\* _create_query(start=..., end=..., on=..., ...): the time range of the
\* query (the equality filters of the other options do not touch it)
create_query(start, end, on) ==
    [start |-> start, end |-> end, on |-> on, predicates |-> <<>>]

\* lines 97-101: the start the stored checkpoint timestamp gives
CheckpointStart(name, start) ==
    IF name # NoName /\ cursor_get(store, name) # None
    THEN cursor_get(store, name)
    ELSE start

\* lines 103-125: the query that is executed; the caller checks usage first
BuildQuery(name, advanced_query, start, end, on) ==
    IF advanced_query # NoAdvancedQuery
    THEN parse_raw(advanced_query)
    ELSE create_query(CheckpointStart(name, start), end, on)

\* mutant: the stored timestamp does not count as a start
BadOptionUsage_IgnoresCheckpoint(name, advanced_query, start, end, on) ==
    /\ advanced_query = NoAdvancedQuery
    /\ start = None
    /\ on = None
    /\ end = None

\* lines 106-111
BadOptionUsage(name, advanced_query, start, end, on) ==
    /\ advanced_query = NoAdvancedQuery
    /\ CheckpointStart(name, start) = None
    /\ on = None
    /\ end = None

\* what the operator gave of --start, --end, --on and --advanced-query
RangeGiven(advanced_query, start, end, on) ==
    advanced_query # NoAdvancedQuery \/ start # None \/ end # None \/ on # None

\* the alerts with created_at from the stored timestamp on (any fetch does
\* for a checkpoint that holds no timestamp)
FromStored(name, q) ==
    IF cursor_get(store, name) = None
    THEN Matches(q)
    ELSE {r \in SeqToSet(upstream) : r.created_at >= cursor_get(store, name)}

\* how the fetch of query q compares with the alerts from the stored
\* timestamp on
FetchKind(name, q) ==
    IF name = NoName \/ Matches(q) = FromStored(name, q) THEN "exact"
    ELSE IF FromStored(name, q) \subseteq Matches(q) THEN "superset"
    ELSE "other"

Bump(n) == IF n < 3 THEN n + 1 ELSE 3

\* the fetch of query q has no upper bound and holds every alert from the
\* stored timestamp on
Covers(name, q) ==
    /\ q.end = None
    /\ q.on = None
    /\ FromStored(name, q) \subseteq Matches(q)

SearchUsageError(name, advanced_query, start, end, on) ==
    /\ Idle
    /\ BadOptionUsage(name, advanced_query, start, end, on)
    /\ pc' = "usage_error"
    /\ checkpoint_name' = name
    /\ rangeGiven' = RangeGiven(advanced_query, start, end, on)
    /\ fetched' = <<>>
    /\ yielded' = <<>>
    /\ writes' = 0
    /\ remaining' = {}
    /\ store0' = IF name # NoName THEN store[name] ELSE Absent
    /\ lastAdv' = IF name # NoName THEN store[name] ELSE Absent
    /\ UNCHANGED <<otherVars, upstream, store, query, checkpoint_alerts, new_timestamp,
                   new_alerts, fetchKind, histVars>>

\* lines 103-125: the query cannot be constructed (InvalidFieldError);
\* the exception leaves search() before line 126
SearchInvalidQuery(name, advanced_query, start, end, on) ==
    /\ Idle
    /\ ~BadOptionUsage(name, advanced_query, start, end, on)
    /\ ~ValidQuery(BuildQuery(name, advanced_query, start, end, on))
    /\ pc' = "invalid_query"
    /\ checkpoint_name' = name
    /\ rangeGiven' = RangeGiven(advanced_query, start, end, on)
    /\ fetched' = <<>>
    /\ yielded' = <<>>
    /\ writes' = 0
    /\ remaining' = {}
    /\ store0' = IF name # NoName THEN store[name] ELSE Absent
    /\ lastAdv' = IF name # NoName THEN store[name] ELSE Absent
    /\ UNCHANGED <<otherVars, upstream, store, query, checkpoint_alerts, new_timestamp,
                   new_alerts, fetchKind, histVars>>

\* mutant: the query is not validated before it is handed to iter_all
Search_NoValidation(name, advanced_query, start, end, on) ==
    /\ Idle
    /\ ~BadOptionUsage(name, advanced_query, start, end, on)
    /\ rangeGiven' = RangeGiven(advanced_query, start, end, on)
    /\ LET q == BuildQuery(name, advanced_query, start, end, on) IN
        /\ query' = q
        /\ remaining' = Matches(q)
        /\ fetchKind' = FetchKind(name, q)
    /\ checkpoint_name' = name
    /\ checkpoint_alerts' = IF name # NoName
                            THEN cursor_get_items(store, name)
                            ELSE {}
    /\ new_timestamp' = None
    /\ new_alerts' = {}
    /\ pc' = "fetch"
    /\ fetched' = <<>>
    /\ yielded' = <<>>
    /\ writes' = 0
    /\ store0' = IF name # NoName THEN store[name] ELSE Absent
    /\ lastAdv' = IF name # NoName THEN store[name] ELSE Absent
    /\ runNo' = IF name # NoName THEN Bump(runNo) ELSE runNo
    /\ IF name = NoName
       THEN UNCHANGED <<cut, unhanded>>
       ELSE LET q == BuildQuery(name, advanced_query, start, end, on)
                first == cursor_get(store, name) = None IN
            /\ kept = "gap" => Covers(name, q)
            /\ cut' = (~first /\ cut)
            /\ unhanded' = IF kept = "gap" /\ first THEN IdsOf(Matches(q))
                            ELSE unhanded
    /\ UNCHANGED <<otherVars, upstream, store, delivered, prevBoundary, regular,
                   deleted>>

\* lines 91-129, and lines 352-354 of the generator, which run when the
\* consumer asks for the first alert
Search(name, advanced_query, start, end, on) ==
    /\ Idle
    /\ ~BadOptionUsage(name, advanced_query, start, end, on)
    /\ ValidQuery(BuildQuery(name, advanced_query, start, end, on))
    /\ rangeGiven' = RangeGiven(advanced_query, start, end, on)
    /\ LET q == BuildQuery(name, advanced_query, start, end, on) IN
        /\ query' = q
        /\ remaining' = Matches(q)
        /\ fetchKind' = FetchKind(name, q)
    /\ checkpoint_name' = name
    /\ checkpoint_alerts' = IF name # NoName
                            THEN cursor_get_items(store, name)
                            ELSE {}
    /\ new_timestamp' = None
    /\ new_alerts' = {}
    /\ pc' = "fetch"
    /\ fetched' = <<>>
    /\ yielded' = <<>>
    /\ writes' = 0
    /\ store0' = IF name # NoName THEN store[name] ELSE Absent
    /\ lastAdv' = IF name # NoName THEN store[name] ELSE Absent
    /\ runNo' = IF name # NoName THEN Bump(runNo) ELSE runNo
    /\ IF name = NoName
       THEN UNCHANGED <<cut, unhanded>>
       ELSE LET q == BuildQuery(name, advanced_query, start, end, on)
                first == cursor_get(store, name) = None IN
            /\ kept = "gap" => Covers(name, q)
            /\ cut' = (~first /\ cut)
            /\ unhanded' = IF kept = "gap" /\ first THEN IdsOf(Matches(q))
                            ELSE unhanded
    /\ UNCHANGED <<otherVars, upstream, store, delivered, prevBoundary, regular,
                   deleted>>

(***************************************************************************)
(* _update_checkpoint(), lines 355-365.                                    *)
(***************************************************************************)
\* mutant: the id is looked up in the ids of this run
AlreadySeen_ThisRun(alert) == alert.id \in new_alerts

\* mutant: the id is looked up in the ids the store holds now
AlreadySeen_Stored(alert) ==
    alert.id \in cursor_get_items(store, checkpoint_name)

\* line 357
AlreadySeen(alert) == alert.id \in checkpoint_alerts

\* mutant: the timestamp of every alert is taken
NewerAlert_Always(alert) == TRUE

\* mutant: >= for >
NewerAlert_OrEqual(alert) ==
    new_timestamp = None \/ alert.created_at >= new_timestamp

\* line 358
NewerAlert(alert) ==
    new_timestamp = None \/ alert.created_at > new_timestamp

\* lines 358-359
NextTimestamp(alert) ==
    IF NewerAlert(alert) THEN alert.created_at ELSE new_timestamp

\* mutant: the list is cleared for every alert, not only for a newer one
NextAlertIds_KeepsLast(alert) == {alert.id}

\* mutant: the list is never cleared
NextAlertIds_NoClear(alert) == new_alerts \cup {alert.id}

\* lines 358-361
NextAlertIds(alert) ==
    (IF NewerAlert(alert) THEN {} ELSE new_alerts) \cup {alert.id}

\* a run of the command ends: what the history keeps of it
EndRun(end) ==
    /\ pc' = end
    /\ IF checkpoint_name = NoName
       THEN UNCHANGED <<cut, unhanded, deleted>>
       ELSE /\ unhanded' = unhanded \ SeqToSet(yielded)
            /\ cut' = (kept = "gap" /\ end # "done")
            /\ deleted' = Absent
    /\ IF checkpoint_name = NoName
       THEN UNCHANGED <<delivered, prevBoundary, runNo, regular>>
       ELSE IF regular /\ end = "done" /\ fetchKind = "exact"
       THEN /\ delivered' = delivered \cup SeqToSet(yielded)
            /\ prevBoundary' = {id \in SeqToSet(yielded) :
                                  TsOf(id) = store[checkpoint_name].ts}
            /\ UNCHANGED <<runNo, regular>>
       ELSE /\ regular' = FALSE
            /\ delivered' = {}
            /\ prevBoundary' = {}
            /\ runNo' = 3

\* lines 355-357: an alert whose id is in checkpoint_alerts is passed over
FetchSkip ==
    /\ pc = "fetch"
    /\ checkpoint_name # NoName
    /\ \E alert \in NextAlerts(remaining) :
        /\ AlreadySeen(alert)
        /\ remaining' = remaining \ {alert}
        /\ fetched' = Append(fetched, alert.id)
    /\ UNCHANGED <<otherVars, upstream, store, pc, checkpoint_name, query, rangeGiven,
                   checkpoint_alerts, new_timestamp, new_alerts, yielded,
                   store0, lastAdv, writes, fetchKind, histVars>>

\* mutant: the fetch is not advanced past the alert that is handed over
FetchYield_Rewinds ==
    /\ pc = "fetch"
    /\ checkpoint_name # NoName
    /\ \E alert \in NextAlerts(remaining) :
        /\ ~AlreadySeen(alert)
        /\ new_timestamp' = NextTimestamp(alert)
        /\ new_alerts' = NextAlertIds(alert)
        /\ fetched' = Append(fetched, alert.id)
        /\ yielded' = Append(yielded, alert.id)
    /\ pc' = "yielded"
    /\ UNCHANGED <<otherVars, upstream, store, checkpoint_name, query, rangeGiven,
                   remaining, checkpoint_alerts, store0, lastAdv, writes,
                   fetchKind, histVars>>

\* lines 355-362: up to the yield
FetchYield ==
    /\ pc = "fetch"
    /\ checkpoint_name # NoName
    /\ \E alert \in NextAlerts(remaining) :
        /\ ~AlreadySeen(alert)
        /\ remaining' = remaining \ {alert}
        /\ new_timestamp' = NextTimestamp(alert)
        /\ new_alerts' = NextAlertIds(alert)
        /\ fetched' = Append(fetched, alert.id)
        /\ yielded' = Append(yielded, alert.id)
    /\ pc' = "yielded"
    /\ UNCHANGED <<otherVars, upstream, store, checkpoint_name, query, rangeGiven, checkpoint_alerts,
                   store0, lastAdv, writes, fetchKind, histVars>>

\* mutant: the timestamp is written under one name, whatever --checkpoint
ReplaceTimestamp_OneName ==
    /\ pc = "yielded"
    /\ store' = cursor_replace(store, "cp", new_timestamp)
    /\ writes' = writes + 1
    /\ pc' = "replaced"
    /\ UNCHANGED <<otherVars, upstream, checkpoint_name, query, rangeGiven, remaining, fetched,
                   checkpoint_alerts, new_timestamp, new_alerts, yielded,
                   store0, lastAdv, fetchKind, histVars>>

\* mutant: the timestamp of the newest alert of the fetch is stored
ReplaceTimestamp_Newest ==
    /\ pc = "yielded"
    /\ store' = cursor_replace(store, checkpoint_name,
                    (CHOOSE r \in Matches(query) :
                        \A o \in Matches(query) : o.created_at <= r.created_at
                    ).created_at)
    /\ writes' = writes + 1
    /\ pc' = "replaced"
    /\ UNCHANGED <<otherVars, upstream, checkpoint_name, query, rangeGiven, remaining, fetched,
                   checkpoint_alerts, new_timestamp, new_alerts, yielded,
                   store0, lastAdv, fetchKind, histVars>>

\* lines 363-364: the consumer asks for the next alert and the generator
\* goes on after the yield.  Line 363 discards its result; created_at is
\* an aware datetime and timestamp() its epoch value.
ReplaceTimestamp ==
    /\ pc = "yielded"
    /\ store' = cursor_replace(store, checkpoint_name, new_timestamp)
    /\ writes' = writes + 1
    /\ pc' = "replaced"
    /\ UNCHANGED <<otherVars, upstream, checkpoint_name, query, rangeGiven, remaining, fetched,
                   checkpoint_alerts, new_timestamp, new_alerts, yielded,
                   store0, lastAdv, fetchKind, histVars>>

\* mutant: the new ids are added to the stored ones
ReplaceItems_Union ==
    /\ pc = "replaced"
    /\ store' = cursor_replace_items(store, checkpoint_name,
                    cursor_get_items(store, checkpoint_name) \cup new_alerts)
    /\ writes' = writes + 1
    /\ lastAdv' = store'[checkpoint_name]
    /\ pc' = "fetch"
    /\ UNCHANGED <<otherVars, upstream, checkpoint_name, query, rangeGiven, remaining, fetched,
                   checkpoint_alerts, new_timestamp, new_alerts, yielded,
                   store0, fetchKind, histVars>>

\* mutant: the ids are not written while the run iterates
ReplaceItems_Deferred ==
    /\ pc = "replaced"
    /\ pc' = "fetch"
    /\ UNCHANGED <<otherVars, upstream, store, checkpoint_name, query, rangeGiven, remaining, fetched,
                   checkpoint_alerts, new_timestamp, new_alerts, yielded,
                   store0, lastAdv, writes, fetchKind, histVars>>

\* line 365
ReplaceItems ==
    /\ pc = "replaced"
    /\ store' = cursor_replace_items(store, checkpoint_name, new_alerts)
    /\ writes' = writes + 1
    /\ lastAdv' = store'[checkpoint_name]
    /\ pc' = "fetch"
    /\ UNCHANGED <<otherVars, upstream, checkpoint_name, query, rangeGiven, remaining, fetched,
                   checkpoint_alerts, new_timestamp, new_alerts, yielded,
                   store0, fetchKind, histVars>>

\* mutant: the checkpoint is written once more when the fetch is exhausted
Exhausted_PersistAtEnd ==
    /\ pc = "fetch"
    /\ remaining = {}
    /\ EndRun("done")
    /\ store' = cursor_replace_items(
                    cursor_replace(store, checkpoint_name, new_timestamp),
                    checkpoint_name, new_alerts)
    /\ writes' = writes + 2
    /\ UNCHANGED <<otherVars, upstream, checkpoint_name, query, rangeGiven, remaining, fetched,
                   checkpoint_alerts, new_timestamp, new_alerts, yielded,
                   store0, lastAdv, fetchKind>>

\* line 355 (search(), line 151, without --checkpoint): the fetch is exhausted
Exhausted ==
    /\ pc = "fetch"
    /\ remaining = {}
    /\ EndRun("done")
    /\ UNCHANGED <<otherVars, upstream, store, runVars>>

\* line 355 (line 151): iter_all raises while the next alert is requested;
\* nothing in _update_checkpoint or search() catches it
FetchError ==
    /\ pc = "fetch"
    /\ EndRun("failed")
    /\ UNCHANGED <<otherVars, upstream, store, runVars>>

\* line 362: the consumer never asks for the next alert (it raised, the
\* operator interrupted it, the process was killed): the generator is
\* closed at the yield and lines 363-365 do not run for this alert
Interrupt ==
    /\ pc = "yielded"
    /\ EndRun("interrupted")
    /\ UNCHANGED <<otherVars, upstream, store, runVars>>

\* between line 364 and line 365: the process is killed
Kill ==
    /\ pc = "replaced"
    /\ EndRun("killed")
    /\ UNCHANGED <<otherVars, upstream, store, runVars>>

\* search(), lines 151-159, without --checkpoint: the alerts of the fetch
\* go to the consumer as they come
PlainYield ==
    /\ pc = "fetch"
    /\ checkpoint_name = NoName
    /\ \E alert \in NextAlerts(remaining) :
        /\ remaining' = remaining \ {alert}
        /\ fetched' = Append(fetched, alert.id)
        /\ yielded' = Append(yielded, alert.id)
    /\ UNCHANGED <<otherVars, upstream, store, pc, checkpoint_name, query, rangeGiven,
                   checkpoint_alerts, new_timestamp, new_alerts, store0,
                   lastAdv, writes, fetchKind, histVars>>

(***************************************************************************)
(* clear_checkpoint(), lines 167-171.                                      *)
(***************************************************************************)
\* mutant: only the timestamp is removed
ClearCheckpoint_TimestampOnly(name) ==
    /\ Idle
    /\ store' = cursor_replace(store, name, None)
    /\ pc' = "cleared"
    /\ store0' = store[name]
    /\ lastAdv' = Absent
    /\ deleted' = IF kept = "delete" THEN store[name] ELSE Absent
    /\ delivered' = {}
    /\ prevBoundary' = {}
    /\ runNo' = IF kept = "runs" THEN 0 ELSE 3
    /\ regular' = (kept = "runs")
    /\ cut' = FALSE
    /\ unhanded' = {}
    /\ UNCHANGED <<otherVars, upstream, checkpoint_name, query, rangeGiven,
                   remaining, checkpoint_alerts, new_timestamp, new_alerts,
                   fetched, yielded, writes, fetchKind>>

\* lines 167-171; store0 keeps the checkpoint as the command found it
ClearCheckpoint(name) ==
    /\ Idle
    /\ store' = cursor_delete(store, name)
    /\ pc' = "cleared"
    /\ store0' = store[name]
    /\ lastAdv' = Absent
    /\ deleted' = IF kept = "delete" THEN store[name] ELSE Absent
    /\ delivered' = {}
    /\ prevBoundary' = {}
    /\ runNo' = IF kept = "runs" THEN 0 ELSE 3
    /\ regular' = (kept = "runs")
    /\ cut' = FALSE
    /\ unhanded' = {}
    /\ UNCHANGED <<otherVars, upstream, checkpoint_name, query, rangeGiven,
                   remaining, checkpoint_alerts, new_timestamp, new_alerts,
                   fetched, yielded, writes, fetchKind>>

(***************************************************************************)
(* The command's process exits; the next command starts afresh.            *)
(***************************************************************************)
Exit ==
    /\ Ended
    /\ pc' = "idle"
    /\ checkpoint_name' = NoName
    /\ query' = NoQuery
    /\ rangeGiven' = FALSE
    /\ remaining' = {}
    /\ checkpoint_alerts' = {}
    /\ new_timestamp' = None
    /\ new_alerts' = {}
    /\ fetched' = <<>>
    /\ yielded' = <<>>
    /\ store0' = Absent
    /\ lastAdv' = Absent
    /\ writes' = 0
    /\ fetchKind' = "exact"
    /\ UNCHANGED <<otherVars, upstream, store, histVars>>

\* the inputs of search(): --advanced-query, --start, --end, --on
SearchWith(name) ==
    \E advanced_query \in AdvancedQueries \cup {NoAdvancedQuery},
       start \in Times \cup {None}, end \in EndOptions,
       on \in OnOptions :
        \* search() does not read the options of the time range when
        \* --advanced-query is given
        /\ advanced_query # NoAdvancedQuery
                => start = None /\ end = None /\ on = None
        /\ \/ SearchUsageError(name, advanced_query, start, end, on)
           \/ SearchInvalidQuery(name, advanced_query, start, end, on)
           \/ Search(name, advanced_query, start, end, on)

(***************************************************************************)
(* The query model (incydr._queries.alerts.AlertQuery): a query is built   *)
(* from a time range by adding predicates, serialized and parsed back.     *)
(***************************************************************************)
\* how many predicates a query is given
MaxPredicates == 2

\* the fields, operators and values the predicates of the model draw from
ModelFields == {"State", "Actor", "not_a_real_field"}
Operators == {"IS", "IS_NOT"}
Values == {"x"}

\* _create_query was not called
NoKwargs ==
    [start |-> None, end |-> None, on |-> None,
     alert_id |-> "None", type_ |-> "None", name |-> "None", actor |-> "None",
     actor_id |-> "None", risk_severity |-> "None", state |-> "None",
     rule_id |-> "None", alert_severity |-> "None"]

QueryIdle ==
    /\ qpc = "none"
    /\ built = NoQuery
    /\ text = <<>>
    /\ parsed = NoQuery
    /\ kwargs = NoKwargs
    /\ kpos = 0

InitQuery ==
    /\ qpc = "build"
    /\ built \in {[start |-> s, end |-> e, on |-> o, predicates |-> <<>>] :
                     s \in Times \cup {None}, e \in Times \cup {None},
                     o \in Times \cup {None}}
    /\ text = <<>>
    /\ parsed = NoQuery
    /\ kwargs = NoKwargs
    /\ kpos = 0

\* add_predicate(field, operator, value) (query.equals(field, value) with
\* the operator IS): a new query with the predicate after the others
AddPredicate(field, operator, value) ==
    /\ qpc = "build"
    /\ Len(built.predicates) < MaxPredicates
    /\ field \in AllowedFields
    /\ built' = [built EXCEPT !.predicates =
                    Append(@, [field |-> field, operator |-> operator,
                               value |-> value])]
    /\ UNCHANGED <<qpc, text, parsed, kwargs, kpos>>
    /\ UNCHANGED <<kept, searchVars, bulkVars, settingsVars>>

\* add_predicate on a field that is not allowed: InvalidFieldError
AddPredicateInvalid(field, operator, value) ==
    /\ qpc = "build"
    /\ Len(built.predicates) < MaxPredicates
    /\ field \notin AllowedFields
    /\ qpc' = "invalid"
    /\ UNCHANGED <<built, text, parsed, kwargs, kpos>>
    /\ UNCHANGED <<kept, searchVars, bulkVars, settingsVars>>

Serialize ==
    /\ qpc = "build"
    /\ text' = serialize(built)
    /\ qpc' = "serialized"
    /\ UNCHANGED <<built, parsed, kwargs, kpos>>
    /\ UNCHANGED <<kept, searchVars, bulkVars, settingsVars>>

ParseRaw ==
    /\ qpc = "serialized"
    /\ parsed' = parse_raw(text)
    /\ qpc' = "parsed"
    /\ UNCHANGED <<built, text, kwargs, kpos>>
    /\ UNCHANGED <<kept, searchVars, bulkVars, settingsVars>>

NextQuery ==
    \/ \E field \in ModelFields, operator \in Operators, value \in Values :
          \/ AddPredicate(field, operator, value)
          \/ AddPredicateInvalid(field, operator, value)
    \/ Serialize
    \/ ParseRaw

(***************************************************************************)
(* bulk_update_state(), lines 234-300.  The backend's limit of 100 alerts  *)
(* per request is scaled down to ChunkSize.                                *)
(***************************************************************************)
\* how many rows the input holds
MaxRows == 3
\* the size of a chunk (line 278: size=100)
ChunkSize == 2

\* an option that was not given, a column or key the row does not have
Missing == "None"

\* the values --state and --note draw, and those of the rows
StateOptions == {Missing, "RESOLVED"}
NoteOptions == {Missing, "", "bulk"}
RowStates == {Missing, "OPEN"}
RowNotes == {Missing, "r"}

\* Python's truth value of an option or column
Truthy(v) == v \notin {Missing, ""}
\* Python's `a or b`
Or(a, b) == IF Truthy(a) THEN a ELSE b

\* line 272: the key of bucketize
BucketKey(alert) == <<Or(state, alert.state), Or(note, alert.note)>>

\* lines 270-274: bucketize keeps the keys in the order they first appear
\* and, under each key, the alert ids in the order of the input
BucketKeys ==
    LET first == SelectSeq([i \in 1..Len(alerts_) |-> i],
                     LAMBDA i : \A j \in 1..(i - 1) :
                         BucketKey(alerts_[j]) # BucketKey(alerts_[i]))
    IN [n \in 1..Len(first) |-> BucketKey(alerts_[first[n]])]

\* history: the numbers of the rows of the input under a key
BucketRows(key) ==
    SelectSeq([i \in 1..Len(alerts_) |-> i],
              LAMBDA i : BucketKey(alerts_[i]) = key)

BucketIds(key) ==
    LET rows == BucketRows(key)
    IN [n \in 1..Len(rows) |-> alerts_[rows[n]].alert_id]

\* mutant: the ids of a bucket go in one chunk
chunked_Whole(ids, size) == IF ids = <<>> THEN <<>> ELSE <<ids>>

\* boltons.iterutils.chunked(alert_ids, size)
RECURSIVE chunked(_, _)
chunked(ids, size) ==
    IF Len(ids) <= size
    THEN IF ids = <<>> THEN <<>> ELSE <<ids>>
    ELSE <<SubSeq(ids, 1, size)>> \o chunked(SubSeq(ids, size + 1, Len(ids)), size)

\* lines 275-278: the chunks of the buckets from bucket n on, each with the
\* state and note of its bucket
RECURSIVE ChunksFrom(_)
ChunksFrom(n) ==
    IF n > Len(BucketKeys) THEN <<>>
    ELSE LET key == BucketKeys[n]
             cs == chunked(BucketIds(key), ChunkSize)
             rs == chunked(BucketRows(key), ChunkSize)
         IN [i \in 1..Len(cs) |->
                [ids |-> cs[i], rows |-> rs[i],
                 state |-> key[1], note |-> key[2]]]
            \o ChunksFrom(n + 1)

\* lines 250-267: without --state every row must hold a state
ValidInput == Truthy(state) \/ \A i \in 1..Len(alerts_) : alerts_[i].state # Missing

BulkIdle ==
    /\ bulk_pc = "none"
    /\ state = Missing
    /\ note = Missing
    /\ alerts_ = <<>>
    /\ chunks = <<>>
    /\ retry = <<>>
    /\ calls = <<>>

\* the inputs of n rows: a row holds an alert id of its own; the last row
\* may hold, once more, the alert id of the first
Rows(n) ==
    {[i \in 1..n |-> [alert_id |-> AlertIds[id[i]], state |-> st[i], note |-> nt[i]]] :
        id \in {f \in [1..n -> 1..n] :
                    \A i \in 1..n : f[i] = i \/ (i = n /\ f[i] = 1)},
        st \in [1..n -> RowStates], nt \in [1..n -> RowNotes]}

InitBulk ==
    /\ bulk_pc = "start"
    /\ state \in StateOptions
    /\ note \in NoteOptions
    /\ alerts_ \in UNION {Rows(n) : n \in 1..MaxRows}
    /\ chunks = <<>>
    /\ retry = <<>>
    /\ calls = <<>>

\* lines 262-267: a row of the input does not validate
BulkInputError ==
    /\ bulk_pc = "start"
    /\ ~ValidInput
    /\ bulk_pc' = "input_error"
    /\ UNCHANGED <<state, note, alerts_, chunks, retry, calls>>
    /\ UNCHANGED <<kept, searchVars, queryVars, settingsVars>>

\* lines 262-278
BulkBucketize ==
    /\ bulk_pc = "start"
    /\ ValidInput
    /\ chunks' = ChunksFrom(1)
    /\ bulk_pc' = "loop"
    /\ UNCHANGED <<state, note, alerts_, retry, calls>>
    /\ UNCHANGED <<kept, searchVars, queryVars, settingsVars>>

\* a call of change_state: its first argument (a list of ids, kind
\* "batch", or one id, kind "single"), its state and note, and how it ended;
\* rows is history, the numbers of the rows the ids came from
Call(kind, ids, rows, chunk, result) ==
    [kind |-> kind, ids |-> ids, rows |-> rows,
     state |-> chunk.state, note |-> chunk.note, result |-> result]

\* lines 279-284: change_state(chunk, state_, note_) succeeds
BatchOk ==
    /\ bulk_pc = "loop"
    /\ chunks # <<>>
    /\ calls' = Append(calls, Call("batch", Head(chunks).ids, Head(chunks).rows,
                                 Head(chunks), "ok"))
    /\ chunks' = Tail(chunks)
    /\ UNCHANGED <<bulk_pc, state, note, alerts_, retry>>
    /\ UNCHANGED <<kept, searchVars, queryVars, settingsVars>>

\* lines 285-290: the call raises HTTPError with status 404
BatchNotFound ==
    /\ bulk_pc = "loop"
    /\ chunks # <<>>
    /\ calls' = Append(calls, Call("batch", Head(chunks).ids, Head(chunks).rows,
                                 Head(chunks), "404"))
    /\ retry' = Head(chunks).ids
    /\ bulk_pc' = "retry"
    /\ UNCHANGED <<state, note, alerts_, chunks>>
    /\ UNCHANGED <<kept, searchVars, queryVars, settingsVars>>

\* mutant: every HTTPError is answered as a 404 is
BatchError_Retries ==
    /\ bulk_pc = "loop"
    /\ chunks # <<>>
    /\ calls' = Append(calls, Call("batch", Head(chunks).ids, Head(chunks).rows,
                                 Head(chunks), "error"))
    /\ retry' = Head(chunks).ids
    /\ bulk_pc' = "retry"
    /\ UNCHANGED <<state, note, alerts_, chunks>>
    /\ UNCHANGED <<kept, searchVars, queryVars, settingsVars>>

\* lines 285-287: the call raises HTTPError with another status; the except
\* clause does nothing for it
BatchError ==
    /\ bulk_pc = "loop"
    /\ chunks # <<>>
    /\ calls' = Append(calls, Call("batch", Head(chunks).ids, Head(chunks).rows,
                                 Head(chunks), "error"))
    /\ chunks' = Tail(chunks)
    /\ UNCHANGED <<bulk_pc, state, note, alerts_, retry>>
    /\ UNCHANGED <<kept, searchVars, queryVars, settingsVars>>

\* mutant: an HTTPError of one id ends the retries of the chunk
RetryOne_StopsOnError(result) ==
    /\ bulk_pc = "retry"
    /\ LET i == Len(Head(chunks).ids) - Len(retry) + 1
       IN calls' = Append(calls, Call("single", <<Head(retry)>>,
                                      <<Head(chunks).rows[i]>>, Head(chunks), result))
    /\ retry' = IF result = "error" THEN <<>> ELSE Tail(retry)
    /\ IF retry' = <<>>
       THEN /\ bulk_pc' = "loop"
            /\ chunks' = Tail(chunks)
       ELSE UNCHANGED <<bulk_pc, chunks>>
    /\ UNCHANGED <<state, note, alerts_>>
    /\ UNCHANGED <<kept, searchVars, queryVars, settingsVars>>

\* lines 291-300: change_state(id_, state_, note_), which succeeds or raises
\* HTTPError
RetryOne(result) ==
    /\ bulk_pc = "retry"
    /\ LET i == Len(Head(chunks).ids) - Len(retry) + 1
       IN calls' = Append(calls, Call("single", <<Head(retry)>>,
                                      <<Head(chunks).rows[i]>>, Head(chunks), result))
    /\ retry' = Tail(retry)
    /\ IF Tail(retry) = <<>>
       THEN /\ bulk_pc' = "loop"
            /\ chunks' = Tail(chunks)
       ELSE UNCHANGED <<bulk_pc, chunks>>
    /\ UNCHANGED <<state, note, alerts_>>
    /\ UNCHANGED <<kept, searchVars, queryVars, settingsVars>>

\* line 275: no bucket is left
BulkDone ==
    /\ bulk_pc = "loop"
    /\ chunks = <<>>
    /\ bulk_pc' = "done"
    /\ UNCHANGED <<state, note, alerts_, chunks, retry, calls>>
    /\ UNCHANGED <<kept, searchVars, queryVars, settingsVars>>

NextBulk ==
    \/ BulkInputError
    \/ BulkBucketize
    \/ BatchOk
    \/ BatchNotFound
    \/ BatchError
    \/ \E result \in {"ok", "error"} : RetryOne(result)
    \/ BulkDone

(***************************************************************************)
(* _create_query, lines 316-325: the query of the time range and then     *)
(* one pass over the keyword arguments in the order of the call of         *)
(* lines 112-125.                                                          *)
(***************************************************************************)
\* kwargs.items(): the keywords in the order of the call
KwargOrder ==
    <<"start", "end", "on", "alert_id", "type_", "name", "actor", "actor_id",
      "risk_severity", "state", "rule_id", "alert_severity">>

\* the filter options the model gives a value: not given, empty or "x"
ModelOptions == {"alert_id", "state", "alert_severity"}
FilterValues == {Missing, "", "x"}

\* line 321, `if v:`: a time is a datetime or None, a filter option a
\* string or None
TruthyArg(k, v) == IF k \in {"start", "end", "on"} THEN v # None ELSE Truthy(v)

\* query.equals(field, value): the query with the predicate `field IS value`
\* after its predicates
equals(q, field, value) ==
    [q EXCEPT !.predicates =
        Append(@, [field |-> field, operator |-> "IS", value |-> value])]

InitCreateQuery ==
    /\ qpc = "create"
    /\ built = NoQuery
    /\ text = <<>>
    /\ parsed = NoQuery
    /\ kwargs \in {[NoKwargs EXCEPT !.start = s, !.end = e, !.on = o,
                                     !.alert_id = f["alert_id"],
                                     !.state = f["state"],
                                     !.alert_severity = f["alert_severity"]] :
                        s \in Times \cup {None}, e \in Times \cup {None},
                        o \in Times \cup {None},
                        f \in [ModelOptions -> FilterValues]}
    /\ kpos = 0

\* lines 317-319
CreateQueryRange ==
    /\ qpc = "create"
    /\ kpos = 0
    /\ built' = create_query(kwargs.start, kwargs.end, kwargs.on)
    /\ kpos' = 1
    /\ UNCHANGED <<qpc, text, parsed, kwargs>>
    /\ UNCHANGED <<kept, searchVars, bulkVars, settingsVars>>

\* mutant: no keyword is passed over
CreateQueryItem_NoContinue ==
    /\ qpc = "create"
    /\ kpos \in 1..Len(KwargOrder)
    /\ LET k == KwargOrder[kpos]
           v == kwargs[k]
       IN built' = IF TruthyArg(k, v)
                   THEN equals(built,
                               IF k \in DOMAIN field_option_map
                               THEN field_option_map[k] ELSE k,
                               IF k \in {"start", "end", "on"} THEN "x" ELSE v)
                   ELSE built
    /\ kpos' = kpos + 1
    /\ UNCHANGED <<qpc, text, parsed, kwargs>>
    /\ UNCHANGED <<kept, searchVars, bulkVars, settingsVars>>

\* lines 320-324: one item of kwargs.items()
CreateQueryItem ==
    /\ qpc = "create"
    /\ kpos \in 1..Len(KwargOrder)
    /\ LET k == KwargOrder[kpos]
           v == kwargs[k]
       IN built' = IF TruthyArg(k, v)
                   THEN IF k \in {"start", "end", "on"}
                        THEN built
                        ELSE equals(built, field_option_map[k], v)
                   ELSE built
    /\ kpos' = kpos + 1
    /\ UNCHANGED <<qpc, text, parsed, kwargs>>
    /\ UNCHANGED <<kept, searchVars, bulkVars, settingsVars>>

\* line 325
CreateQueryReturn ==
    /\ qpc = "create"
    /\ kpos = Len(KwargOrder) + 1
    /\ qpc' = "created"
    /\ UNCHANGED <<built, text, parsed, kwargs, kpos>>
    /\ UNCHANGED <<kept, searchVars, bulkVars, settingsVars>>

NextCreateQuery ==
    \/ CreateQueryRange
    \/ CreateQueryItem
    \/ CreateQueryReturn

(***************************************************************************)
(* IncydrSettings (src/incydr/_core/settings.py): the log fields of the    *)
(* settings and the loggers they configure.  The fields are validated when *)
(* a settings object is constructed and, with validate_assignment (line    *)
(* 106), when one of them is assigned: the validator of the field, then    *)
(* configure_logging with all values.  A validation error leaves the       *)
(* settings as they were.  `settings` is the object constructed last.      *)
(* Opening the log file is taken to succeed.                               *)
(***************************************************************************)
\* the loggers of the process: logging.getLogger("incydr") and a logger the
\* user made
LoggerNames == {"incydr", "custom"}

\* what a caller passes as logger and log_file: nothing, a logger or
\* something that is none; nothing, the path of a file that can be made,
\* an open file or a path in a directory that does not exist
LoggerInputs == {Missing, "incydr", "custom", "not_a_logger"}
LogFileInputs == {Missing, "f", "io", "no_such_dir/f"}

\* line 89: the default of log_level
WARNING == 30

\* a string is the sequence of its characters
Lowers ==
    <<"a", "b", "c", "d", "e", "f", "g", "h", "i", "j", "k", "l", "m",
      "n", "o", "p", "q", "r", "s", "t", "u", "v", "w", "x", "y", "z">>
Uppers ==
    <<"A", "B", "C", "D", "E", "F", "G", "H", "I", "J", "K", "L", "M",
      "N", "O", "P", "Q", "R", "S", "T", "U", "V", "W", "X", "Y", "Z">>
DigitChars == <<"0", "1", "2", "3", "4", "5", "6", "7", "8", "9">>

PlaceIn(chars, c) == CHOOSE i \in 1..Len(chars) : chars[i] = c
IsIn(chars, c) == \E i \in 1..Len(chars) : chars[i] = c

UpperChar(c) == IF IsIn(Lowers, c) THEN Uppers[PlaceIn(Lowers, c)] ELSE c
LowerChar(c) == IF IsIn(Uppers, c) THEN Lowers[PlaceIn(Uppers, c)] ELSE c

\* mutant: the case of the value is kept
upper_Identity(txt) == txt

\* value.upper(), line 114
upper(txt) == [i \in 1..Len(txt) |-> UpperChar(txt[i])]

\* str(n) of an integer: how the callers of the model write a number
RECURSIVE DigitsOf(_)
DigitsOf(n) ==
    IF n < 10 THEN <<DigitChars[n + 1]>>
    ELSE DigitsOf(n \div 10) \o <<DigitChars[(n % 10) + 1]>>

str(n) == IF n < 0 THEN <<"-">> \o DigitsOf(-n) ELSE DigitsOf(n)

\* the strings int() takes: digits after an optional sign (the blanks and
\* underscores Python allows are not drawn)
AllDigits(txt) ==
    /\ txt # <<>>
    /\ \A i \in 1..Len(txt) : IsIn(DigitChars, txt[i])

IntLiteral(txt) ==
    /\ txt # <<>>
    /\ IF Head(txt) \in {"-", "+"} THEN AllDigits(Tail(txt)) ELSE AllDigits(txt)

RECURSIVE Decimal(_)
Decimal(txt) ==
    IF txt = <<>> THEN 0
    ELSE 10 * Decimal(SubSeq(txt, 1, Len(txt) - 1))
            + (PlaceIn(DigitChars, txt[Len(txt)]) - 1)

\* the values log_level is given.  kind says what was passed: an int
\* (num), a float (num tenths, not negative), None, or a string (text):
\* the numeral of num, a spelling of the LogLevel `name`, or another string
\* (kind, and num and name of a string, are history: the validator reads
\* the type and the text)
Value(kind, num, txt, name) == [kind |-> kind, num |-> num, text |-> txt, name |-> name]

PyType(value) ==
    IF value.kind \in {"numeral", "name", "other"} THEN "str" ELSE value.kind

\* int(value), line 112: raises ValueError for a string that is no integer
\* literal, TypeError for None
IntRaises(value) ==
    CASE PyType(value) = "str" -> IF IntLiteral(value.text) THEN "no" ELSE "ValueError"
      [] PyType(value) = "none" -> "TypeError"
      [] OTHER -> "no"

int(value) ==
    CASE PyType(value) = "int" -> value.num
      [] PyType(value) = "float" -> value.num \div 10
      [] PyType(value) = "str" ->
            IF Head(value.text) = "-" THEN 0 - Decimal(Tail(value.text))
            ELSE IF Head(value.text) = "+" THEN Decimal(Tail(value.text))
            ELSE Decimal(value.text)

\* lines 20-25: the values of the members of LogLevel
LogLevel ==
    {<<"E", "R", "R", "O", "R">>, <<"W", "A", "R", "N", "I", "N", "G">>,
     <<"W", "A", "R", "N">>, <<"I", "N", "F", "O">>, <<"D", "E", "B", "U", "G">>}

\* LogLevel(value), line 115: the lookup of a member by its value raises
\* ValueError when no member has the value
LogLevelRaises(txt) == txt \notin LogLevel

\* line 36
log_level_map ==
    [m \in LogLevel |->
        CASE m = <<"E", "R", "R", "O", "R">> -> 40
          [] m = <<"W", "A", "R", "N", "I", "N", "G">> -> 30
          [] m = <<"W", "A", "R", "N">> -> 30
          [] m = <<"I", "N", "F", "O">> -> 20
          [] m = <<"D", "E", "B", "U", "G">> -> 10]

\* lines 109-116: the validator raises a TypeError for None and a
\* ValueError for a string that is neither an integer literal nor, in upper
\* case, the value of a LogLevel; both end in a validation error
LogLevelValid(value) ==
    \/ IntRaises(value) = "no"
    \/ /\ IntRaises(value) = "ValueError"
       /\ ~LogLevelRaises(upper(value.text))

validate_log_level(value) ==
    IF IntRaises(value) = "no" THEN int(value)
    ELSE log_level_map[upper(value.text)]

\* the spellings of a member of LogLevel: any of its letters in lower case
Spellings(m) ==
    {[i \in 1..Len(m) |-> IF i \in low THEN LowerChar(m[i]) ELSE m[i]] :
        low \in SUBSET (1..Len(m))}

\* the name of a member of LogLevel, as the history of a value keeps it
NameOf(m) ==
    CASE m = <<"E", "R", "R", "O", "R">> -> "ERROR"
      [] m = <<"W", "A", "R", "N", "I", "N", "G">> -> "WARNING"
      [] m = <<"W", "A", "R", "N">> -> "WARN"
      [] m = <<"I", "N", "F", "O">> -> "INFO"
      [] m = <<"D", "E", "B", "U", "G">> -> "DEBUG"

\* the numbers and the other strings the model draws
Numbers == {0 - 5, 0, 10, 15, 30, 50}
OtherNames ==
    {<<>>, <<"b", "o", "g", "u", "s">>, <<"W", "A", "R", "N", "I", "N">>,
     <<"w", "a", "r", "n", " ">>, <<"1", "0", ".", "5">>, <<"1", "0", "x">>,
     <<"C", "R", "I", "T", "I", "C", "A", "L">>, <<"n", "o", "t", "s", "e", "t">>}

NoLevel == Value("none", 0, <<>>, "")

LevelValues ==
    {Value("int", n, <<>>, "") : n \in Numbers}
    \cup {Value("numeral", n, str(n), "") : n \in Numbers}
    \cup {Value("numeral", 10, <<"+", "1", "0">>, "")}
    \cup {Value("float", 107, <<>>, ""), NoLevel}
    \cup UNION {{Value("name", 0, t, NameOf(m)) : t \in Spellings(m)} : m \in LogLevel}
    \cup {Value("other", 0, t, "") : t \in OtherNames}

\* what the settings are given as log_level: nothing, "10", "warn", "bogus"
LogLevelInputs ==
    {NoLevel,
     Value("numeral", 10, str(10), ""),
     Value("name", 0, <<"w", "a", "r", "n">>, "WARN"),
     Value("other", 0, <<"b", "o", "g", "u", "s">>, "")}

\* lines 118-130: a path is accepted when it is a file or can be made in a
\* directory that exists, and becomes absolute
LogFileValid(value) == value # "no_such_dir/f"

validate_log_file(value) == IF value = "f" THEN "/cwd/f" ELSE value

\* lines 140-150: without a value the logger is logging.getLogger("incydr"),
\* which is flagged
LoggerValid(value) == value \in LoggerNames \cup {Missing}

validate_logger(value) == IF value = Missing THEN "incydr" ELSE value

FlagLogger(lg, value) ==
    IF value = Missing THEN [lg EXCEPT !["incydr"].incydr = TRUE] ELSE lg

Handler(cls, target) == [cls |-> cls, target |-> target]

\* lines 168-195: the handlers configure_logging adds
NewHandlers(values) ==
    (IF values.log_stderr /\ values.use_rich
     THEN <<Handler("RichHandler", "stderr")>> ELSE <<>>)
    \o (IF values.log_stderr /\ ~values.use_rich
        THEN <<Handler("StreamHandler", "stderr")>> ELSE <<>>)
    \o (IF values.log_file # Missing /\ values.use_rich
        THEN <<Handler("RichHandler", "file")>> ELSE <<>>)
    \o (IF values.log_file # Missing /\ ~values.use_rich
        THEN IF values.log_file = "io"
             THEN <<Handler("StreamHandler", "file")>>
             ELSE <<Handler("FileHandler", "file")>>
        ELSE <<>>)

\* mutant: the handlers of the logger are not cleared
configure_logging_NoClear(values, lg) ==
    IF ~lg[values.logger].incydr
    THEN lg
    ELSE [lg EXCEPT ![values.logger] =
            [incydr |-> TRUE,
             handlers |-> @.handlers \o NewHandlers(values),
             level |-> values.log_level]]

\* mutant: a logger without the flag is configured as well
configure_logging_Any(values, lg) ==
    [lg EXCEPT ![values.logger] =
        [incydr |-> @.incydr,
         handlers |-> NewHandlers(values),
         level |-> values.log_level]]

\* lines 152-199
configure_logging(values, lg) ==
    IF ~lg[values.logger].incydr
    THEN lg
    ELSE [lg EXCEPT ![values.logger] =
            [incydr |-> TRUE,
             handlers |-> NewHandlers(values),
             level |-> values.log_level]]

\* no settings object was constructed; own is history: the logger of the
\* settings was left to the library
NoSettings ==
    [use_rich |-> TRUE, log_stderr |-> TRUE, log_file |-> Missing,
     log_level |-> WARNING, logger |-> Missing, own |-> FALSE]

\* a logger nothing was done to, and one with a handler and a level of the
\* user's
FreshLogger == [incydr |-> FALSE, handlers |-> <<>>, level |-> 0]
UserLogger ==
    [incydr |-> FALSE, handlers |-> <<Handler("UserHandler", "user")>>, level |-> 20]

\* _validate_log_level is not running
LevelIdle ==
    /\ lpc = "none"
    /\ given = NoLevel
    /\ level = 0

SettingsIdle ==
    /\ spc = "none"
    /\ settings = NoSettings
    /\ loggers = [n \in LoggerNames |-> FreshLogger]
    /\ LevelIdle

InitSettings ==
    /\ spc = "start"
    /\ settings = NoSettings
    /\ loggers \in [LoggerNames -> {FreshLogger, UserLogger}]
    /\ LevelIdle

\* lines 95-102 and the validators: IncydrSettings(...) with valid values;
\* an argument that is None is left out and the default is taken
Construct(use_rich, log_stderr, log_file, log_level, logger) ==
    /\ spc # "none"
    /\ LogFileValid(log_file)
    /\ log_level = NoLevel \/ LogLevelValid(log_level)
    /\ LoggerValid(logger)
    /\ LET values == [use_rich |-> use_rich, log_stderr |-> log_stderr,
                      log_file |-> validate_log_file(log_file),
                      log_level |-> IF log_level = NoLevel THEN WARNING
                                    ELSE validate_log_level(log_level),
                      logger |-> validate_logger(logger),
                      own |-> logger = Missing]
       IN /\ settings' = values
          /\ loggers' = configure_logging(values, FlagLogger(loggers, logger))
    /\ spc' = "ok"
    /\ UNCHANGED <<kept, searchVars, queryVars, bulkVars, lpc, given, level>>

\* a validator raises: configure_logging is skipped (skip_on_failure, line
\* 152) and no object is made; the validator of logger has run
ConstructInvalid(use_rich, log_stderr, log_file, log_level, logger) ==
    /\ spc # "none"
    /\ \/ ~LogFileValid(log_file)
       \/ log_level # NoLevel /\ ~LogLevelValid(log_level)
       \/ ~LoggerValid(logger)
    /\ loggers' = IF LoggerValid(logger) THEN FlagLogger(loggers, logger) ELSE loggers
    /\ spc' = "validation_error"
    /\ UNCHANGED settings
    /\ UNCHANGED <<kept, searchVars, queryVars, bulkVars, lpc, given, level>>

\* the values a field is assigned
FieldInputs(field) ==
    CASE field = "use_rich" -> BOOLEAN
      [] field = "log_stderr" -> BOOLEAN
      [] field = "log_file" -> LogFileInputs
      [] field = "log_level" -> LogLevelInputs
      [] field = "logger" -> LoggerInputs

FieldValid(field, value) ==
    CASE field = "log_file" -> LogFileValid(value)
      [] field = "log_level" -> LogLevelValid(value)
      [] field = "logger" -> LoggerValid(value)
      [] OTHER -> TRUE

FieldValue(field, value) ==
    CASE field = "log_file" -> validate_log_file(value)
      [] field = "log_level" -> validate_log_level(value)
      [] field = "logger" -> validate_logger(value)
      [] OTHER -> value

\* settings.<field> = value with a valid value (validate_assignment)
Assign(field, value) ==
    /\ spc \in {"ok", "validation_error"}
    /\ settings.logger # Missing
    /\ FieldValid(field, value)
    /\ LET assigned == [settings EXCEPT ![field] = FieldValue(field, value)]
           values == IF field = "logger"
                     THEN [assigned EXCEPT !.own = (value = Missing)]
                     ELSE assigned
       IN /\ settings' = values
          /\ loggers' = configure_logging(values,
                            IF field = "logger" THEN FlagLogger(loggers, value)
                            ELSE loggers)
    /\ spc' = "ok"
    /\ UNCHANGED <<kept, searchVars, queryVars, bulkVars, lpc, given, level>>

\* the validator of the field raises: the settings stay as they were
AssignInvalid(field, value) ==
    /\ spc \in {"ok", "validation_error"}
    /\ settings.logger # Missing
    /\ ~FieldValid(field, value)
    /\ spc' = "validation_error"
    /\ UNCHANGED <<settings, loggers>>
    /\ UNCHANGED <<kept, searchVars, queryVars, bulkVars, lpc, given, level>>

\* _validate_log_level alone, line 110: it is given a value
InitLogLevel ==
    /\ lpc = "start"
    /\ given \in LevelValues
    /\ level = 0

\* lines 111-113: int(value) returns, or raises
ValidateInt ==
    /\ lpc = "start"
    /\ IF IntRaises(given) = "no"
       THEN /\ level' = int(given)
            /\ lpc' = "returned"
       ELSE /\ level' = level
            /\ lpc' = IF IntRaises(given) = "ValueError" THEN "except" ELSE "rejected"
    /\ UNCHANGED given
    /\ UNCHANGED <<kept, searchVars, queryVars, bulkVars, spc, settings, loggers>>

\* lines 114-116: the name in upper case is looked up in LogLevel and mapped
ValidateName ==
    /\ lpc = "except"
    /\ IF LogLevelRaises(upper(given.text))
       THEN /\ level' = level
            /\ lpc' = "rejected"
       ELSE /\ level' = log_level_map[upper(given.text)]
            /\ lpc' = "returned"
    /\ UNCHANGED given
    /\ UNCHANGED <<kept, searchVars, queryVars, bulkVars, spc, settings, loggers>>

NextLogLevel ==
    \/ ValidateInt
    \/ ValidateName

LogFields == {"use_rich", "log_stderr", "log_file", "log_level", "logger"}

NextSettings ==
    \/ \E use_rich \in BOOLEAN, log_stderr \in BOOLEAN, log_file \in LogFileInputs,
          log_level \in LogLevelInputs, logger \in LoggerInputs :
            \/ Construct(use_rich, log_stderr, log_file, log_level, logger)
            \/ ConstructInvalid(use_rich, log_stderr, log_file, log_level, logger)
    \/ \E field \in LogFields : \E value \in FieldInputs(field) :
            \/ Assign(field, value)
            \/ AssignInvalid(field, value)

InitKeeping(k) == InitSearch(k) /\ QueryIdle /\ BulkIdle /\ SettingsIdle

Init == InitKeeping("runs")

(***************************************************************************)
(* Spec: the commands that name a checkpoint.  A search without            *)
(* --checkpoint reads and writes nothing of the cursor store (lines 98,    *)
(* 128); SpecUnnamed runs those.                                           *)
(***************************************************************************)
Next ==
    \/ \E t \in Times : NewAlert(t)
    \/ \E name \in CheckpointNames : SearchWith(name)
    \/ FetchSkip
    \/ FetchYield
    \/ ReplaceTimestamp
    \/ ReplaceItems
    \/ Exhausted
    \/ FetchError
    \/ Interrupt
    \/ Kill
    \/ \E name \in CheckpointNames : ClearCheckpoint(name)
    \/ Exit

Spec == Init /\ [][Next]_vars

NextUnnamed ==
    \/ \E t \in Times : NewAlert(t)
    \/ SearchWith(NoName)
    \/ PlainYield
    \/ Exhausted
    \/ FetchError
    \/ Exit

SpecUnnamed == Init /\ [][NextUnnamed]_vars

\* the generator and its consumer go on while they can: the steps of the
\* loop of _update_checkpoint and the end of the fetch are not put off for
\* ever
InitFair == InitKeeping("none")

GeneratorStep ==
    FetchSkip \/ FetchYield \/ ReplaceTimestamp \/ ReplaceItems \/ Exhausted

SpecFair == InitFair /\ [][Next]_vars /\ WF_vars(GeneratorStep)

\* the same commands over a fetch that returns the alerts in any order
InitAnyOrder == InitKeeping("anyorder")

SpecAnyOrder == InitAnyOrder /\ [][Next]_vars

\* the commands with two checkpoint names and with none
NextNames ==
    \/ Next
    \/ SearchWith(NoName)
    \/ PlainYield

InitNames == InitKeeping("names")

SpecNames == InitNames /\ [][NextNames]_vars

\* the same commands, keeping the history of what was handed over
SpecGap == InitKeeping("gap") /\ [][Next]_vars

\* the same commands, keeping what clear_checkpoint removed
SpecDelete == InitKeeping("delete") /\ [][Next]_vars

\* the same commands with every option of search()
SpecUsage == InitKeeping("usage") /\ [][Next]_vars

\* the query model alone
InitQueryModel == InitSearch("runs") /\ InitQuery /\ BulkIdle /\ SettingsIdle

SpecQuery == InitQueryModel /\ [][NextQuery]_vars

\* _create_query alone
InitCreateQueryModel == InitSearch("runs") /\ InitCreateQuery /\ BulkIdle /\ SettingsIdle

SpecCreateQuery == InitCreateQueryModel /\ [][NextCreateQuery]_vars

\* the settings alone
InitSettingsModel == InitSearch("runs") /\ QueryIdle /\ BulkIdle /\ InitSettings

SpecSettings == InitSettingsModel /\ [][NextSettings]_vars

\* the validator of log_level alone
InitLogLevelModel ==
    /\ InitSearch("runs") /\ QueryIdle /\ BulkIdle
    /\ spc = "none" /\ settings = NoSettings
    /\ loggers = [n \in LoggerNames |-> FreshLogger]
    /\ InitLogLevel

SpecLogLevel == InitLogLevelModel /\ [][NextLogLevel]_vars

\* bulk_update_state alone
InitBulkUpdate == InitSearch("runs") /\ QueryIdle /\ InitBulk /\ SettingsIdle

SpecBulk == InitBulkUpdate /\ [][NextBulk]_vars


(***************************************************************************)
(* Properties.                                                             *)
(***************************************************************************)
Alert(id, t) == [id |-> id, created_at |-> t]
Last(ids) == ids[Len(ids)]
\* the ids among ids[1..n] whose alert has the creation time of ids[n]
TiedWith(ids, n) == {ids[i] : i \in {j \in 1..n : TsOf(ids[j]) = TsOf(ids[n])}}
\* the checkpoint that is advanced exactly up to ids[n]
AdvancedTo(ids, n) == [ts |-> TsOf(ids[n]), items |-> TiedWith(ids, n)]
Checkpoint == store["cp"]

\* C1: when every checkpointed run so far was iterated to its end and
\* fetched exactly the alerts from the stored timestamp on, a run yields no
\* id that an earlier run of the checkpoint yielded.
C1_OnlyNewResults ==
    (Running /\ regular /\ fetchKind = "exact")
        => SeqToSet(yielded) \cap delivered = {}

C3_Fetch ==
    /\ Matches(query) = {Alert("a", 100), Alert("b", 100), Alert("c", 150)}
    /\ fetched = <<"a", "b", "c">>

\* C3: from an absent checkpoint, a run iterated to its end over the fetch
\* [a@100, b@100, c@150] yields a, b, c in that order and leaves the
\* checkpoint (150, {c}).
C3_TieThenNewer ==
    (pc = "done" /\ store0 = Absent /\ C3_Fetch)
        => /\ yielded = <<"a", "b", "c">>
           /\ Checkpoint = [ts |-> 150, items |-> {"c"}]

C3_Witness == pc = "done" /\ store0 = Absent /\ C3_Fetch

C4_Fetch ==
    /\ Matches(query) = {Alert("c", 150), Alert("d", 150)}
    /\ fetched = <<"c", "d">>

\* C4: with the checkpoint at (150, {c}), a run iterated to its end over
\* the fetch [c@150, d@150] yields only d and leaves the checkpoint
\* (150, {c, d}).
C4_TieAtBoundary ==
    (pc = "done" /\ store0 = [ts |-> 150, items |-> {"c"}] /\ C4_Fetch)
        => /\ yielded = <<"d">>
           /\ Checkpoint = [ts |-> 150, items |-> {"c", "d"}]

\* C5: after runs that were all iterated to their end over exact fetches,
\* the stored ids are exactly the ids delivered under the checkpoint whose
\* alert has the stored timestamp.
C5_SeenIdsAreBoundaryIds ==
    (pc = "done" /\ regular)
        => Checkpoint.items =
             {id \in delivered : TsOf(id) = Checkpoint.ts}

\* C6 as stated: when the consumer stops right after record N was handed
\* to it, the checkpoint is advanced up to record N (N is among the stored
\* ids of its creation time, so a resumed run would not yield it again).
C6_AdvancedToInterruptedRecord ==
    pc = "interrupted" => Checkpoint = AdvancedTo(yielded, Len(yielded))

\* C6 as amended: when the consumer stops right after record N was handed
\* to it, the checkpoint is advanced exactly up to the record the run
\* yielded before N (it is as the run found it when N is the first): N is
\* not among the stored ids, and when the run fetched exactly the alerts
\* from the stored timestamp on, the creation time of N is not before the
\* stored one, so a resumed run fetches N and yields it again.
C6_AdvancedToRecordBefore ==
    pc = "interrupted"
        => /\ Checkpoint = IF Len(yielded) = 1
                           THEN store0
                           ELSE AdvancedTo(yielded, Len(yielded) - 1)
           /\ Last(yielded) \notin Checkpoint.items
           /\ fetchKind = "exact" => TsOf(Last(yielded)) >= Checkpoint.ts

\* C6: the consumer stopped at the third alert of a run
C6_Witness == pc = "interrupted" /\ Len(yielded) >= 3 /\ fetchKind = "exact"

\* C7: when the fetcher fails, the run ends with the failure and the
\* checkpoint is advanced exactly up to the last record handed to the
\* consumer; it is as the run found it when none was.
C7_FailureKeepsLastAdvance ==
    pc = "failed"
        => Checkpoint = IF yielded = <<>>
                        THEN store0
                        ELSE AdvancedTo(yielded, Len(yielded))

\* C7: the fetcher failed while producing a later record
C7_Witness ==
    /\ pc = "failed"
    /\ Len(yielded) >= 2
    /\ remaining # {}
    /\ Checkpoint # store0

\* C8: when a command has ended, by whatever end, the store does not hold
\* a last_timestamp that differs from that of the last complete advance
\* together with the ids of that advance.
C8_AdvanceIsAtomic ==
    Ended => ~(Checkpoint.ts # lastAdv.ts /\ Checkpoint.items = lastAdv.items)

\* C9: a run iterated to its end whose fetch returned only ids that are in
\* the stored ids yields nothing, writes nothing and leaves the checkpoint
\* as it found it.
C9_IdempotentResume ==
    (pc = "done" /\ IdsOf(Matches(query)) \subseteq store0.items)
        => /\ yielded = <<>>
           /\ writes = 0
           /\ Checkpoint = store0

\* C9: such a run over a fetch that is not empty
C9_Witness ==
    /\ pc = "done"
    /\ Matches(query) # {}
    /\ SeqToSet(fetched) = IdsOf(Matches(query))
    /\ IdsOf(Matches(query)) \subseteq store0.items

\* C10: a run whose fetch returned no record writes nothing: an existing
\* checkpoint is as it was and an absent one is still absent.
C10_ZeroResultRun ==
    (pc = "done" /\ Matches(query) = {})
        => /\ writes = 0
           /\ Checkpoint = store0

\* C10: an empty fetch with an existing checkpoint
C10_Witness ==
    /\ pc = "done"
    /\ Matches(query) = {}
    /\ store0 # Absent
    /\ upstream # <<>>

\* C11: in a search that names a checkpoint holding a timestamp, the query
\* that is executed starts at that timestamp, however the query was built.
C11_StartIsStoredTimestamp ==
    (Running /\ checkpoint_name # NoName /\ store0.ts # None)
        => query.start = store0.ts

\* C12: when every run since the checkpoint held no timestamp fetched, with
\* no upper bound, every alert from the stored timestamp on, a run that has
\* come to the end of its fetch leaves no alert from the start of the first
\* of these runs on that neither it nor an earlier run, however that one
\* ended, handed to the consumer; and a run has handed over every id it
\* fetched that is not among the ids it loaded at its start.
C12_NoGap ==
    /\ (pc = "fetch" /\ remaining = {} /\ checkpoint_name # NoName)
           => unhanded \subseteq SeqToSet(yielded)
    /\ SeqToSet(yielded) = SeqToSet(fetched) \ checkpoint_alerts

\* C12: a run that follows one that was stopped before the end of its
\* fetch has come to the end of its own and has handed over alerts the
\* earlier runs left
C12_Witness ==
    /\ pc = "fetch" /\ remaining = {} /\ cut
    /\ store0.ts # None
    /\ unhanded # {}
    /\ Len(fetched) > Len(yielded)

\* C13: in a checkpointed run both writes for a record are done before the
\* next record is requested from the fetcher: whenever the run requests a
\* record, and when it has ended at the end of its fetch, the store holds
\* the checkpoint of the last record handed over; at every point at most
\* one record handed over is not yet persisted.
C13_PersistThenYieldNext ==
    checkpoint_name # NoName
        => /\ pc \in {"fetch", "done", "failed"}
                => /\ writes = 2 * Len(yielded)
                   /\ yielded # <<>>
                        => Checkpoint = [ts |-> new_timestamp, items |-> new_alerts]
           /\ pc \in {"yielded", "interrupted"} => writes = 2 * (Len(yielded) - 1)
           /\ pc \in {"replaced", "killed"} => writes = 2 * Len(yielded) - 1

\* C13: the second record of a run is handed over; the first is persisted
C13_Witness ==
    /\ pc = "yielded"
    /\ Len(yielded) = 2
    /\ writes = 2
    /\ Checkpoint = AdvancedTo(yielded, 1)
    /\ Checkpoint # store0

\* C14: a search given none of --start, --end, --on and --advanced-query
\* ends with a usage error exactly when its checkpoint holds no timestamp;
\* the usage error comes before any fetch and writes nothing to the cursor
\* store, and with a stored timestamp the search runs from that timestamp.
C14_UsageError ==
    /\ pc = "usage_error"
           => /\ ~rangeGiven
              /\ store0.ts = None
              /\ fetched = <<>> /\ remaining = {}
              /\ writes = 0 /\ Checkpoint = store0
    /\ (checkpoint_name # NoName /\ ~rangeGiven)
           => /\ store0.ts = None => pc = "usage_error"
              /\ store0.ts # None => pc # "usage_error" /\ query.start = store0.ts

\* C14: the usage error of a search that names a checkpoint, with alerts
\* upstream that a fetch would have returned
C14_Witness ==
    /\ pc = "usage_error"
    /\ checkpoint_name # NoName
    /\ upstream # <<>>

\* C15: clear_checkpoint ends without a failure and leaves no timestamp
\* and no ids under the name, whether the checkpoint existed or not (so a
\* second delete leaves what the first left); the run that follows the
\* delete of a checkpoint finds none, as a first run does: it loads no ids,
\* passes over no alert of its fetch and needs an option of the time range.
C15_DeleteCheckpoint ==
    /\ pc = "cleared" => Checkpoint = Absent
    /\ (deleted # Absent /\ checkpoint_name # NoName)
           => /\ store0 = Absent
              /\ checkpoint_alerts = {}
              /\ yielded = fetched
              /\ ~rangeGiven => pc = "usage_error"

\* C15: the run after the delete has come to the end of its fetch and has
\* handed over an alert whose id the deleted checkpoint held
C15_Witness ==
    /\ pc = "fetch" /\ remaining = {}
    /\ deleted.items \cap SeqToSet(yielded) # {}

\* C17: a search whose query cannot be constructed (a predicate names a
\* field that is not allowed) ends before any fetch is started and leaves
\* the cursor store as it found it; the query of a search that fetches is
\* valid.
C17_InvalidQueryPreFlight ==
    /\ pc = "invalid_query"
           => /\ fetched = <<>> /\ remaining = {}
              /\ writes = 0
              /\ Checkpoint = store0
    /\ Running => ValidQuery(query)

\* C17: such a search against an existing checkpoint, with alerts upstream
C17_Witness ==
    /\ pc = "invalid_query"
    /\ store0.ts # None /\ store0.items # {}
    /\ upstream # <<>>

\* the greatest creation time among the alerts ids
RunningMax(ids) ==
    CHOOSE t \in {TsOf(ids[i]) : i \in 1..Len(ids)} :
        \A i \in 1..Len(ids) : TsOf(ids[i]) <= t
\* the ids of ids from the place on where the running maximum last rose
SinceIncrease(ids) ==
    LET k == CHOOSE i \in 1..Len(ids) :
                 /\ TsOf(ids[i]) = RunningMax(ids)
                 /\ \A j \in 1..(i - 1) : TsOf(ids[j]) < RunningMax(ids)
    IN {ids[i] : i \in k..Len(ids)}

\* C19: when a checkpointed run has handed over a record and written the
\* store for it, the store holds the greatest creation time among the
\* records the run has handed over, with exactly the ids the run handed
\* over since that maximum last rose; the generator's own timestamp and ids
\* are the same, and no id the run loaded at its start is among the stored
\* ids unless the run handed it over.
C19_StoreIsRunningMax ==
    (pc = "fetch" /\ checkpoint_name # NoName /\ yielded # <<>>)
        => /\ Checkpoint.ts = RunningMax(yielded)
           /\ Checkpoint.items = SinceIncrease(yielded)
           /\ new_timestamp = RunningMax(yielded)
           /\ new_alerts = SinceIncrease(yielded)
           /\ (Checkpoint.items \cap checkpoint_alerts) \subseteq SeqToSet(yielded)

\* C19: the run found ids stored at the creation time it has written back
\* with two ids of its own
C19_Witness ==
    /\ pc = "fetch"
    /\ store0.items # {}
    /\ store0.ts = Checkpoint.ts
    /\ Cardinality(Checkpoint.items) = 2
    /\ Checkpoint.items \cap store0.items = {}
    /\ Len(yielded) = 3

\* C20: a record of the fetch whose id is among the ids the store held
\* when the run started is not handed over and changes neither the
\* generator's timestamp and ids nor the store; every other record is
\* handed over, also when the store holds its id by now.
C20_SkipLeavesStateAlone ==
    [][(pc = "fetch" /\ checkpoint_name # NoName /\ fetched' # fetched)
          => IF Last(fetched') \in store0.items
             THEN /\ yielded' = yielded
                  /\ new_timestamp' = new_timestamp
                  /\ new_alerts' = new_alerts
                  /\ store' = store
                  /\ writes' = writes
                  /\ checkpoint_alerts' = store0.items
             ELSE yielded' = Append(yielded, Last(fetched'))]_vars

\* C20: a record was passed over for an id the store held at the start and
\* holds no more, after the run had handed over another
C20_Witness ==
    /\ pc = "fetch"
    /\ yielded # <<>>
    /\ fetched # <<>>
    /\ Last(fetched) \in store0.items
    /\ Last(fetched) \notin Checkpoint.items
    /\ Last(fetched) \notin SeqToSet(yielded)

RowOf(n, i) == alerts_[calls[n].rows[i]]

\* C18: every call of change_state carries, for each of its ids, the
\* --state and the --note of the command line when they were given, and
\* the state and note of the id's row only when they were not.
C18_OptionsOverrideRows ==
    \A n \in 1..Len(calls) : \A i \in 1..Len(calls[n].ids) :
        LET row == RowOf(n, i) IN
        /\ calls[n].state = IF state # Missing THEN state ELSE row.state
        /\ calls[n].note = IF note # Missing THEN note ELSE row.note

\* s is t with some of its elements left out
RECURSIVE IsSubsequence(_, _)
IsSubsequence(s, t) ==
    IF s = <<>> THEN TRUE
    ELSE IF t = <<>> THEN FALSE
    ELSE IF Head(s) = Head(t) THEN IsSubsequence(Tail(s), Tail(t))
    ELSE IsSubsequence(s, Tail(t))

NoRepeats(s) == \A i, j \in 1..Len(s) : s[i] = s[j] => i = j

\* C21: what a checkpointed run hands over is, in the order of the fetch,
\* part of what it fetched, no record twice; the run passes over its fetch
\* once, every record of the fetch being either fetched or still to come,
\* it is done only when nothing is to come, and it does not run for ever.
C21_OnePassSubsequence ==
    /\ [](checkpoint_name # NoName
            => /\ IsSubsequence(yielded, fetched)
               /\ NoRepeats(fetched)
               /\ Running =>
                    /\ SeqToSet(fetched) \cap IdsOf(remaining) = {}
                    /\ SeqToSet(fetched) \cup IdsOf(remaining) = IdsOf(Matches(query))
               /\ pc = "done" => SeqToSet(fetched) = IdsOf(Matches(query)))
    /\ (Running ~> Ended)

\* C21: a run at its end that passed over a record between two it handed over
C21_Witness ==
    /\ pc = "done"
    /\ Len(yielded) = 2
    /\ Len(fetched) = 3
    /\ yielded[1] = fetched[1] /\ yielded[2] = fetched[3]

\* C22: the stored timestamp of a checkpoint is lowered by no step but
\* clear_checkpoint and the first write of a run whose fetch holds an alert
\* older than the timestamp the run found stored; the later writes of a run
\* never lower it, in whatever order the fetch returns the alerts.
C22_TimestampNeverDecreases ==
    [][\A n \in CheckpointNames :
        store'[n].ts < store[n].ts
            => \/ pc' = "cleared"
               \/ /\ writes = 0
                  /\ \E r \in Matches(query) : r.created_at < store0.ts]_vars

\* C22: a run that was handed an older alert after a newer one and has
\* written the checkpoint for both
C22_Witness ==
    /\ pc = "fetch"
    /\ Len(yielded) = 2
    /\ writes = 4
    /\ TsOf(yielded[2]) < TsOf(yielded[1])
    /\ Checkpoint.ts = TsOf(yielded[1])
    /\ store0.ts # None

\* C23: with one writer at a time, a command that has ended does not leave
\* a checkpoint whose last_timestamp was written by the run that ended and
\* whose seen ids were written by an earlier run.
C23_OneWriterNeverMixes ==
    (Ended /\ checkpoint_name # NoName)
        => ~(/\ writes = 1
             /\ store0.items # {}
             /\ Checkpoint.ts # store0.ts
             /\ Checkpoint.items = store0.items)

\* C24: a search without a checkpoint name hands over every alert it
\* fetches; a step changes the stored timestamp or ids of a name only when
\* it is a step of a run with that name or the clear_checkpoint of that
\* name, so a search without a name writes nothing and a run or clear with
\* one name leaves every other name as it was.
C24_OnlyTheNamedCheckpoint ==
    /\ [](checkpoint_name = NoName => yielded = fetched)
    /\ [][\A n \in CheckpointNames :
            store'[n] # store[n]
                => \/ Running /\ checkpoint_name = n
                   \/ ClearCheckpoint(n)]_vars

\* C24: a run with one name has advanced its checkpoint while the other
\* name holds a checkpoint of its own
C24_Witness ==
    /\ pc = "fetch"
    /\ checkpoint_name = "cp2"
    /\ store["cp2"] # store0
    /\ store["cp"] # Absent
    /\ store["cp"] # store["cp2"]

\* the calls of change_state with a list of ids
BatchCalls == {n \in 1..Len(calls) : calls[n].kind = "batch"}

\* what the calls with a list of ids carried, in order
BatchesCalled ==
    LET b == SelectSeq(calls, LAMBDA c : c.kind = "batch")
    IN [n \in 1..Len(b) |-> [ids |-> b[n].ids, rows |-> b[n].rows,
                             state |-> b[n].state, note |-> b[n].note]]

\* the places of the batch calls that hold row r of the input
PlacesOf(r) ==
    {p \in BatchCalls \X (1..Len(alerts_)) :
        /\ p[2] <= Len(calls[p[1]].rows)
        /\ calls[p[1]].rows[p[2]] = r}

\* C25: every batch call holds from 1 to ChunkSize (100 in the code) ids,
\* each the alert id of a row of the input whose effective state and note
\* are the state and note of the call; no row is in two batch calls or
\* twice in one, and when the command is done every row is in one (an
\* alert id that several rows hold is submitted once for each of them).
C25_GroupedAndChunked ==
    /\ \A n \in BatchCalls :
        /\ Len(calls[n].ids) \in 1..ChunkSize
        /\ Len(calls[n].rows) = Len(calls[n].ids)
        /\ \A i \in 1..Len(calls[n].ids) :
            /\ calls[n].ids[i] = RowOf(n, i).alert_id
            /\ BucketKey(RowOf(n, i)) = <<calls[n].state, calls[n].note>>
    /\ \A r \in 1..Len(alerts_) :
        /\ Cardinality(PlacesOf(r)) <= 1
        /\ bulk_pc = "done" => Cardinality(PlacesOf(r)) = 1

\* C25: a command that is done after it sent a group in a full chunk and
\* the rest of the group in a second one
C25_Witness ==
    /\ bulk_pc = "done"
    /\ Len(calls) = 2
    /\ calls[1].kind = "batch" /\ calls[2].kind = "batch"
    /\ Len(calls[1].ids) = ChunkSize
    /\ calls[1].state = calls[2].state /\ calls[1].note = calls[2].note

\* C26: a batch call that ended with 404 is followed, id by id and in the
\* order of the batch, by one call with that id alone and the state and
\* note of the batch, however the calls before it ended; when the command
\* is done every id of the batch had its call and every chunk of every
\* group had its batch call, in order.
C26_NotFoundRetriesEach ==
    /\ \A n \in BatchCalls :
        calls[n].result = "404" =>
            /\ bulk_pc = "done" => n + Len(calls[n].ids) <= Len(calls)
            /\ \A i \in 1..Len(calls[n].ids) :
                n + i <= Len(calls) =>
                    /\ calls[n + i].kind = "single"
                    /\ calls[n + i].ids = <<calls[n].ids[i]>>
                    /\ calls[n + i].rows = <<calls[n].rows[i]>>
                    /\ calls[n + i].state = calls[n].state
                    /\ calls[n + i].note = calls[n].note
            /\ n + Len(calls[n].ids) < Len(calls)
                    => calls[n + Len(calls[n].ids) + 1].kind = "batch"
    /\ bulk_pc = "done" => BatchesCalled = ChunksFrom(1)

\* C26: a command that is done after a batch of two ids ended with 404, the
\* call of its first id failed, the call of its second id succeeded and a
\* later batch was sent
C26_Witness ==
    /\ bulk_pc = "done"
    /\ Len(calls) = 4
    /\ calls[1].kind = "batch" /\ calls[1].result = "404"
    /\ Len(calls[1].ids) = 2
    /\ calls[2].result = "error"
    /\ calls[3].result = "ok"
    /\ calls[4].kind = "batch"

\* C27: a batch call that ended with an HTTP error other than 404 is
\* followed by the batch call of the next chunk, if there is one, and by
\* no call with one of its ids alone; the command goes on and no call that
\* succeeded holds a row of the failed batch.
C27_OtherErrorSkipsBatch ==
    \A n \in BatchCalls :
        calls[n].result = "error" =>
            /\ n < Len(calls) => calls[n + 1].kind = "batch"
            /\ n = Len(calls) => bulk_pc \in {"loop", "done"}
            /\ bulk_pc = "done" => Len(BatchesCalled) = Len(ChunksFrom(1))
            /\ \A m \in 1..Len(calls) :
                calls[m].result = "ok"
                    => SeqToSet(calls[m].rows) \cap SeqToSet(calls[n].rows) = {}

\* C27: a command that is done after its first batch ended with another
\* HTTP error and its second batch succeeded
C27_Witness ==
    /\ bulk_pc = "done"
    /\ Len(calls) = 2
    /\ calls[1].kind = "batch" /\ calls[1].result = "error"
    /\ Len(calls[1].ids) = 2
    /\ calls[2].kind = "batch" /\ calls[2].result = "ok"

\* the filter options of kwargs that hold a value that is not empty, in
\* the order of the options
GivenFilters ==
    SelectSeq(SubSeq(KwargOrder, 4, Len(KwargOrder)),
              LAMBDA k : kwargs[k] \notin {Missing, ""})

\* C28: the query _create_query returns has the start, end and on it was
\* given as its time range and, as its predicates, one `field IS value`
\* for every filter option whose value is given and not empty, on the
\* field field_option_map gives the option, in the order of the options,
\* and nothing else; while it is built its predicates only grow at the end.
C28_OnePredicatePerFilter ==
    /\ [](qpc = "created"
            => /\ built.start = kwargs.start
               /\ built.end = kwargs.end
               /\ built.on = kwargs.on
               /\ built.predicates =
                    [n \in 1..Len(GivenFilters) |->
                        [field |-> field_option_map[GivenFilters[n]],
                         operator |-> "IS",
                         value |-> kwargs[GivenFilters[n]]]])
    /\ [][(kpos >= 1 /\ built' # built)
            => /\ Len(built'.predicates) = Len(built.predicates) + 1
               /\ SubSeq(built'.predicates, 1, Len(built.predicates))
                    = built.predicates
               /\ built'.start = built.start
               /\ built'.end = built.end
               /\ built'.on = built.on]_vars

\* C28: a query returned for a start, an on, two filter options with a
\* value and one with an empty value
C28_Witness ==
    /\ qpc = "created"
    /\ kwargs.start # None
    /\ kwargs.on # None
    /\ kwargs.alert_id = "x"
    /\ kwargs.state = ""
    /\ kwargs.alert_severity = "x"
    /\ Len(built.predicates) = 2

\* the handlers of a logger that write to the target
HandlersTo(name, target) ==
    {i \in 1..Len(loggers[name].handlers) : loggers[name].handlers[i].target = target}

\* C29: when the logger of the settings was left to the library, the
\* library's logger holds one stderr handler if log_stderr is set and none
\* if not, one file handler if log_file is set and none if not, no other
\* handler, and its level is the log_level of the settings, after every
\* construction and assignment, valid or not.
C29_HandlersMatchSettings ==
    settings.own
        => /\ settings.logger = "incydr"
           /\ Cardinality(HandlersTo("incydr", "stderr"))
                = IF settings.log_stderr THEN 1 ELSE 0
           /\ Cardinality(HandlersTo("incydr", "file"))
                = IF settings.log_file # Missing THEN 1 ELSE 0
           /\ Len(loggers["incydr"].handlers)
                = Cardinality(HandlersTo("incydr", "stderr"))
                    + Cardinality(HandlersTo("incydr", "file"))
           /\ loggers["incydr"].level = settings.log_level

\* C29: the library's logger, which held a handler of the user, after the
\* settings were reconfigured to log to stderr and to a file at level 10
C29_Witness ==
    /\ spc = "ok"
    /\ settings.own
    /\ settings.log_stderr
    /\ settings.log_file = "/cwd/f"
    /\ ~settings.use_rich
    /\ settings.log_level = 10
    /\ Len(loggers["incydr"].handlers) = 2
    /\ loggers["custom"] = UserLogger

\* C30: no construction and no assignment, whatever the values of
\* log_level, log_file, log_stderr and use_rich, changes the handlers or
\* the level of the logger the user made, and one that sets a logger
\* without the library's flag changes no logger.
C30_CustomLoggerUntouched ==
    [][/\ loggers'["custom"].handlers = loggers["custom"].handlers
       /\ loggers'["custom"].level = loggers["custom"].level
       /\ (spc' = "ok" /\ ~loggers'[settings'.logger].incydr)
            => loggers' = loggers]_vars

\* C30: settings with the user's logger, set to log to stderr and to a
\* file at a level that is not the logger's, the logger as the user made it
C30_Witness ==
    /\ spc = "ok"
    /\ settings.logger = "custom"
    /\ settings.log_stderr
    /\ settings.log_file = "io"
    /\ settings.log_level = 10
    /\ loggers["custom"] = UserLogger

\* C31: the validator of log_level returns an int as it is and the
\* numeral of an integer as that integer; for a spelling, in whatever case,
\* of ERROR, WARNING, WARN, INFO or DEBUG it returns 40, 30, 30, 20 or 10;
\* it rejects every other string; and what it returns is an integer.
C31_LogLevelValidation ==
    lpc \in {"returned", "rejected"}
        => /\ given.kind \in {"int", "numeral"}
                => lpc = "returned" /\ level = given.num
           /\ given.kind = "name"
                => /\ lpc = "returned"
                   /\ level = CASE given.name = "ERROR" -> 40
                                [] given.name = "WARNING" -> 30
                                [] given.name = "WARN" -> 30
                                [] given.name = "INFO" -> 20
                                [] given.name = "DEBUG" -> 10
           /\ given.kind = "other" => lpc = "rejected"
           /\ lpc = "returned" => level \in Int

\* C31: the validator has returned 30 for "wArNing"
C31_Witness ==
    /\ lpc = "returned"
    /\ given.text = <<"w", "A", "r", "N", "i", "n", "g">>
    /\ level = 30

====
